---------------------------- MODULE Spec2Model ----------------------------
(***************************************************************************)
(* Model of guji-reader-py: the OCR post-processing of                     *)
(* core/utils/ocr_data_util.py (orientation detection, reading-order sort, *)
(* orientation filter) and the in-place edits of the cached page done by   *)
(* ui/pdf_viewer.py (OverlayWidget) and ui/proofread_tab.py.               *)
(*                                                                         *)
(* Numbers.  The Python code works on floats; the model works on integers  *)
(* and states every comparison of a quotient or of a product with a        *)
(* decimal constant as the equivalent integer inequality:                  *)
(*    w / h < 0.6                     <=>   10 * w < 6 * h     (h > 0)     *)
(*    |xc - key| <= max(10, 0.05 * r) <=>   10 * |2xc - 2key| <=           *)
(*                                               max(200, r)               *)
(* Indices are 1-based (a Python index i is i + 1 here).                   *)
(*                                                                         *)
(* Identity.  A detection is a (polygon, text, score) triple kept in three *)
(* parallel lists.  Each element carries the detection it was produced for *)
(* (field det of a polygon, second component of a text or score), which    *)
(* stands for the identity of the Python object.                           *)
(***************************************************************************)
EXTENDS Integers, Sequences, FiniteSets, TLC

VARIABLES
    ocr_data,   \* the OCR result handed to OcrDataUtil (rec_polys/rec_texts/rec_scores)
    detected,   \* value returned by detect_text_orientation, "none" before the call
    result,     \* record returned by sort_by_orientation, NoResult before the call
    pc,         \* position of the caller: "input", "detected", "sorted", "edited";
                \* in the application "idle" or "ocr_running" (OCRWorker started)
    shared,     \* the objects of ocr_data that the returned record is made of:
                \* "record" when it is the very dict, and the names of the lists
                \* that are the very list objects of ocr_data
    cache,               \* GlobalState.ocr_cache of the open PDF: page -> its "ocr" record
    current_page,        \* GlobalState.current_page
    scale_factor,        \* PDFViewerWidget.scale_factor
    ocr_boxes,           \* OverlayWidget.ocr_boxes: sequence of (poly, text)
    selected_index,      \* OverlayWidget.selected_index, -1 for no selection
    resize_edge,         \* OverlayWidget.resize_edge, "none" for None
    is_dragging,         \* OverlayWidget.is_dragging
    drag_start_pos,      \* whether OverlayWidget.drag_start_pos is set
    table_rows,          \* rows of ProofreadTabWidget.result_table (one up and one down button each)
    selected_text_index, \* ProofreadTabWidget.selected_text_index
    resizes,             \* number of polygons written by _resize_selected_box so far
    ocr_runs,            \* number of OCR passes started so far
    done,                \* the operations that have changed a cached page so far
    current_pdf_file,     \* GlobalState.current_pdf_file, NoPath for None
    current_pdf_basename, \* GlobalState.current_pdf_basename, "None" for None
    ocr_cache,            \* GlobalState.ocr_cache, the OrderedDict as the sequence of
                          \* its items [key, data], oldest first
    disk,                 \* the files <basename>.json of the storage directory
    save_threads,         \* the threads save_cache has started, in order of start
    ocr_job,              \* the page start_ocr has rendered for the OCRWorker in flight
    returned,             \* what the last get_pdf_page_data call of the UI returned
    opens,                \* number of set_pdf_file calls so far
    recency               \* history: the file names ever used, least recently used first

sortvars == <<ocr_data, detected, result, pc, shared>>
overlay == <<ocr_boxes, selected_index, resize_edge, is_dragging, drag_start_pos>>
proofread == <<table_rows, selected_text_index>>
gsvars == <<current_pdf_file, current_pdf_basename, ocr_cache, disk, save_threads,
            ocr_job, returned, opens, recency>>
uivars == <<cache, scale_factor, overlay, proofread, resizes, done>>
appvars == <<cache, current_page, scale_factor, overlay, proofread, resizes, ocr_runs, done,
             gsvars>>
vars == <<sortvars, appvars>>

-----------------------------------------------------------------------------
(* Bounds of the model *)

\* largest number of detections of an OCR result
MaxLen == 3
\* largest number of polygons _resize_selected_box writes in one run
MaxResizes == 1
\* largest number of OCR passes started in one run
MaxOcrRuns == 1
\* largest number of set_pdf_file calls in one run
MaxOpens == 8

-----------------------------------------------------------------------------
(* Helpers *)

Min(S) == CHOOSE a \in S : \A b \in S : a <= b
Max(S) == CHOOSE a \in S : \A b \in S : a >= b
Abs(a) == IF a < 0 THEN -a ELSE a
Range(s) == {s[i] : i \in DOMAIN s}

\* lexicographic order of two tuples of integers of the same length (Python tuple <)
RECURSIVE LexLess(_, _)
LexLess(a, b) ==
    IF a = <<>> \/ b = <<>> THEN FALSE
    ELSE IF a[1] # b[1] THEN a[1] < b[1]
    ELSE LexLess(Tail(a), Tail(b))

\* Python sorted(range(n), key=...): the stable ascending sort of the indices
\* 1..n by key[i]; index i lands behind every index with a smaller key and
\* behind every earlier index with an equal key.
sorted(n, key) ==
    LET rank(i) == Cardinality({j \in 1..n :
                        LexLess(key[j], key[i]) \/ (key[j] = key[i] /\ j < i)})
    IN  [p \in 1..n |-> CHOOSE i \in 1..n : rank(i) = p - 1]

RECURSIVE Concat(_)
Concat(ss) == IF ss = <<>> THEN <<>> ELSE Head(ss) \o Concat(Tail(ss))

-----------------------------------------------------------------------------
(* Geometry of one polygon *)

XsOf(poly) == {poly.pts[i][1] : i \in DOMAIN poly.pts}
YsOf(poly) == {poly.pts[i][2] : i \in DOMAIN poly.pts}

\* (x_min, y_min, x_max, y_max) of a polygon
BoxOf(poly) == <<Min(XsOf(poly)), Min(YsOf(poly)), Max(XsOf(poly)), Max(YsOf(poly))>>
WidthOf(poly) == Max(XsOf(poly)) - Min(XsOf(poly))
HeightOf(poly) == Max(YsOf(poly)) - Min(YsOf(poly))

\* aspect = w / h if h > 0 else 10, compared with the fraction n / d
AspectLT(poly, n, d) ==
    IF HeightOf(poly) > 0 THEN WidthOf(poly) * d < n * HeightOf(poly) ELSE 10 * d < n
AspectGT(poly, n, d) ==
    IF HeightOf(poly) > 0 THEN WidthOf(poly) * d > n * HeightOf(poly) ELSE 10 * d > n

\* A coordinate that is not a number (None, a string).  min(), max() or the
\* subtraction x_max - x_min raise TypeError on it.  The model writes it as one
\* integer below every pixel coordinate.
NotANumber == 0 - 1000000
IsNumber(c) == c # NotANumber

\* a polygon whose bounding box cannot be computed: min() of an empty list
\* raises ValueError, a coordinate that is not a number raises TypeError
BoxRaises(poly) ==
    \/ poly.pts = <<>>
    \/ \E k \in DOMAIN poly.pts : ~IsNumber(poly.pts[k][1]) \/ ~IsNumber(poly.pts[k][2])

-----------------------------------------------------------------------------
(* OcrDataUtil.detect_text_orientation *)

\* the loop over polys with a division w / h that has no guard for h = 0
DetectRaises_ZeroHeight(data) ==
    \E i \in DOMAIN data.rec_polys :
        \/ BoxRaises(data.rec_polys[i])
        \/ Max(YsOf(data.rec_polys[i])) = Min(YsOf(data.rec_polys[i]))

\* detect_text_orientation raises: the loop over polys (step 1) meets a
\* polygon whose bounding box cannot be computed
DetectRaises(data) == \E i \in DOMAIN data.rec_polys : BoxRaises(data.rec_polys[i])

\* a vertical line that only counts below aspect 0.4
IsVerticalLine_Narrow(poly) == AspectLT(poly, 4, 10)

\* if ar < 0.6: vertical_lines += 1
IsVerticalLine(poly) == AspectLT(poly, 6, 10)
\* a horizontal line that counts from aspect 1.1 on
IsHorizontalLine_Above11(poly) == AspectGT(poly, 11, 10)

\* elif ar > 1.4: horizontal_lines += 1
IsHorizontalLine(poly) == AspectGT(poly, 14, 10)

\* the vote with its two answers exchanged
MajorityVote_Swapped(vertical_lines, horizontal_lines) ==
    IF vertical_lines > horizontal_lines THEN "horizontal"
    ELSE IF horizontal_lines > vertical_lines THEN "vertical"
    ELSE "tie"

\* step 3, the majority decision; "tie" when the code falls through to step 4
MajorityVote(vertical_lines, horizontal_lines) ==
    IF vertical_lines > horizontal_lines THEN "vertical"
    ELSE IF horizontal_lines > vertical_lines THEN "horizontal"
    ELSE "tie"

\* a tie that always ends horizontal
GlobalFeature_Horizontal(polys) == "horizontal"

\* step 4, the tie-break on the extent of all boxes:
\* global_ar = global_w / global_h if global_h > 0 else 1;
\* "vertical" if global_ar < 0.8 else "horizontal"
GlobalFeature(polys) ==
    LET all_x == UNION {XsOf(polys[i]) : i \in DOMAIN polys}
        all_y == UNION {YsOf(polys[i]) : i \in DOMAIN polys}
        global_w == Max(all_x) - Min(all_x)
        global_h == Max(all_y) - Min(all_y)
    IN  IF global_h > 0 /\ 10 * global_w < 8 * global_h THEN "vertical"
        ELSE "horizontal"

\* the detection with "vertical" as the answer for a page without text lines
detect_text_orientation_EmptyVertical(data) ==
    LET polys == data.rec_polys
        vertical_lines == Cardinality({i \in DOMAIN polys : IsVerticalLine(polys[i])})
        horizontal_lines == Cardinality({i \in DOMAIN polys : IsHorizontalLine(polys[i])})
        vote == MajorityVote(vertical_lines, horizontal_lines)
    IN  IF polys = <<>> THEN "vertical"
        ELSE IF vote # "tie" THEN vote
        ELSE GlobalFeature(polys)

detect_text_orientation(data) ==
    LET polys == data.rec_polys
        vertical_lines == Cardinality({i \in DOMAIN polys : IsVerticalLine(polys[i])})
        horizontal_lines == Cardinality({i \in DOMAIN polys : IsHorizontalLine(polys[i])})
        vote == MajorityVote(vertical_lines, horizontal_lines)
    IN  IF polys = <<>> THEN "horizontal"
        ELSE IF vote # "tie" THEN vote
        ELSE GlobalFeature(polys)

-----------------------------------------------------------------------------
(* OcrDataUtil.filter_by_orientation *)

\* the keep flag with the limits the comments of the code name: a vertical
\* page drops aspect_ratio > 0.6, a horizontal page drops aspect_ratio < 1.4
FilterKeep_Commented(orientation, poly) ==
    IF orientation = "vertical" THEN ~AspectGT(poly, 6, 10)
    ELSE ~AspectLT(poly, 14, 10)

\* keep flag of one text line: a vertical page drops aspect_ratio > 1.5, a
\* horizontal page drops aspect_ratio < 1.5
FilterKeep(orientation, poly) ==
    IF orientation = "vertical" THEN ~AspectGT(poly, 15, 10)
    ELSE ~AspectLT(poly, 15, 10)

\* the filter returning the three lists without the orientation
filter_by_orientation_Untagged(orientation, data) ==
    LET polys == data.rec_polys
        texts == data.rec_texts
        scores == data.rec_scores
        keep(i) == FilterKeep(orientation, polys[i])
        kept == SelectSeq([i \in 1..Len(polys) |-> i], keep)
    IN  [rec_texts  |-> [k \in 1..Len(kept) |-> texts[kept[k]]],
         rec_scores |-> [k \in 1..Len(kept) |-> scores[kept[k]]],
         rec_polys  |-> [k \in 1..Len(kept) |-> polys[kept[k]]]]

filter_by_orientation(orientation, data) ==
    LET polys == data.rec_polys
        texts == data.rec_texts
        scores == data.rec_scores
        keep(i) == FilterKeep(orientation, polys[i])
        kept == SelectSeq([i \in 1..Len(polys) |-> i], keep)
    IN  IF polys = <<>>
        THEN [rec_texts |-> <<>>, rec_scores |-> <<>>, rec_polys |-> <<>>]
        ELSE [orientation |-> orientation,
              rec_texts  |-> [k \in 1..Len(kept) |-> texts[kept[k]]],
              rec_scores |-> [k \in 1..Len(kept) |-> scores[kept[k]]],
              rec_polys  |-> [k \in 1..Len(kept) |-> polys[kept[k]]]]

-----------------------------------------------------------------------------
(* OcrDataUtil.sort_by_orientation *)

\* the threshold without its adaptive part: 20 * 10
ColumnThreshold20_Fixed(boxes) == 200

\* 20 * threshold, threshold = max(10, 0.05 * (max_x - min_x)) over the left
\* and right edges of all boxes
ColumnThreshold20(boxes) ==
    LET all_x == UNION {{boxes[i][1], boxes[i][3]} : i \in DOMAIN boxes}
    IN  Max({200, Max(all_x) - Min(all_x)})

\* 2 * x_center of a box
XCenter2(box) == box[1] + box[3]

\* a match to the left only: the centre is at most threshold left of the key
ColumnMatches_Leftward(c2, key2, thr20) == c2 <= key2 /\ 10 * (key2 - c2) <= thr20

\* abs(x_center - col_key) <= threshold
ColumnMatches(c2, key2, thr20) == 10 * Abs(c2 - key2) <= thr20

\* no grouping: every box opens a column of its own
GroupColumns_Singletons(boxes, idx, cols, thr20) ==
    [i \in 1..Len(boxes) |-> [key |-> XCenter2(boxes[i]), items |-> <<i>>]]

\* the grouping loop without its break: a box joins every column it matches
RECURSIVE GroupColumns_NoBreak(_, _, _, _)
GroupColumns_NoBreak(boxes, idx, cols, thr20) ==
    IF idx > Len(boxes) THEN cols
    ELSE LET c2 == XCenter2(boxes[idx])
             matching == {k \in DOMAIN cols : ColumnMatches(c2, cols[k].key, thr20)}
         IN  IF matching # {}
             THEN GroupColumns_NoBreak(boxes, idx + 1,
                      [k \in DOMAIN cols |->
                          IF k \in matching
                          THEN [cols[k] EXCEPT !.items = Append(@, idx)]
                          ELSE cols[k]], thr20)
             ELSE GroupColumns_NoBreak(boxes, idx + 1,
                      Append(cols, [key |-> c2, items |-> <<idx>>]), thr20)

\* the loop over enumerate(boxes) from position idx on: a box joins the first
\* column (in creation order) whose key is within the threshold of its centre,
\* otherwise it opens a new column keyed by its own centre.  cols is
\* col_dict in insertion order: records [key |-> 2 * x_center, items |-> indices]
RECURSIVE GroupColumns(_, _, _, _)
GroupColumns(boxes, idx, cols, thr20) ==
    IF idx > Len(boxes) THEN cols
    ELSE LET c2 == XCenter2(boxes[idx])
             matching == {k \in DOMAIN cols : ColumnMatches(c2, cols[k].key, thr20)}
         IN  IF matching # {}
             THEN GroupColumns(boxes, idx + 1,
                      [cols EXCEPT ![Min(matching)].items = Append(@, idx)], thr20)
             ELSE GroupColumns(boxes, idx + 1,
                      Append(cols, [key |-> c2, items |-> <<idx>>]), thr20)

\* col_dict after the grouping loop, columns in creation order
Columns(boxes) == GroupColumns(boxes, 1, <<>>, ColumnThreshold20(boxes))

\* a column left in detection order
SortColumn_Unsorted(boxes, items) == items

\* one column sorted top to bottom: sorted(col, key=lambda item: item[1][1])
SortColumn(boxes, items) ==
    LET order == sorted(Len(items), [k \in 1..Len(items) |-> <<boxes[items[k]][2]>>])
    IN  [p \in 1..Len(items) |-> items[order[p]]]

\* the columns left to right: sorted(col_keys) without reverse=True
ColumnOrder_Ascending(cols) == sorted(Len(cols), [k \in 1..Len(cols) |-> <<cols[k].key>>])

\* sorted(col_keys, reverse=True): positions of the columns, largest key first
ColumnOrder(cols) == sorted(Len(cols), [k \in 1..Len(cols) |-> <<-cols[k].key>>])

\* the vertical branch: columns right to left, each column top to bottom
VerticalIndices(boxes) ==
    IF boxes = <<>> THEN <<>>
    ELSE LET cols == Columns(boxes)
             order == ColumnOrder(cols)
         IN  Concat([p \in 1..Len(cols) |-> SortColumn(boxes, cols[order[p]].items)])

\* no sort: the detections in the order the detector emitted them
HorizontalIndices_Emitted(boxes) == [i \in 1..Len(boxes) |-> i]

\* no sort: the detections in the reverse of the order they came in
HorizontalIndices_Reversed(boxes) == [i \in 1..Len(boxes) |-> Len(boxes) + 1 - i]

\* the horizontal sort with the key components exchanged: (x_min, y_min)
HorizontalIndices_XFirst(boxes) ==
    sorted(Len(boxes), [i \in 1..Len(boxes) |-> <<boxes[i][1], boxes[i][2]>>])

\* the horizontal branch: sorted(range(len(boxes)), key=(y_min, x_min))
HorizontalIndices(boxes) ==
    sorted(Len(boxes), [i \in 1..Len(boxes) |-> <<boxes[i][2], boxes[i][1]>>])

\* sorted_indices of sort_by_orientation
SortedIndices(boxes, orientation) ==
    IF orientation = "horizontal" THEN HorizontalIndices(boxes)
    ELSE VerticalIndices(boxes)

BoxesOf(data) == [i \in 1..Len(data.rec_polys) |-> BoxOf(data.rec_polys[i])]

\* an exception inside the try block, were lists of unequal length refused
SortRaises_UnequalLengths(data) ==
    \/ DetectRaises(data)
    \/ Len(data.rec_texts) # Len(data.rec_polys)
    \/ Len(data.rec_scores) # Len(data.rec_polys)

\* an exception inside the try block, were only polygons of 4 points accepted
SortRaises_FourPoints(data) ==
    \/ DetectRaises(data)
    \/ \E i \in DOMAIN data.rec_polys : Len(data.rec_polys[i].pts) # 4
    \/ Len(data.rec_texts) < Len(data.rec_polys)
    \/ Len(data.rec_scores) < Len(data.rec_polys)

\* an exception inside the try block: detect_text_orientation or the box
\* extraction raises on a polygon, or texts[i] / scores[i] reads past the end
\* of a list shorter than rec_polys (sorted_indices holds every index)
SortRaises(data) ==
    \/ DetectRaises(data)
    \/ Len(data.rec_texts) < Len(data.rec_polys)
    \/ Len(data.rec_scores) < Len(data.rec_polys)

\* the except branch returning an empty page
sort_by_orientation_EmptyOnFailure(data) ==
    IF SortRaises(data)
    THEN [rec_texts |-> <<>>, rec_scores |-> <<>>, rec_polys |-> <<>>]
    ELSE LET orientation == detect_text_orientation(data)
             sorted_indices == SortedIndices(BoxesOf(data), orientation)
             n == Len(sorted_indices)
             handler_ocr_data ==
                 [orientation |-> orientation,
                  rec_texts  |-> [k \in 1..n |-> data.rec_texts[sorted_indices[k]]],
                  rec_scores |-> [k \in 1..n |-> data.rec_scores[sorted_indices[k]]],
                  rec_polys  |-> [k \in 1..n |-> data.rec_polys[sorted_indices[k]]]]
         IN  filter_by_orientation(orientation, handler_ocr_data)

sort_by_orientation(data) ==
    IF SortRaises(data) THEN data
    ELSE LET orientation == detect_text_orientation(data)
             sorted_indices == SortedIndices(BoxesOf(data), orientation)
             n == Len(sorted_indices)
             handler_ocr_data ==
                 [orientation |-> orientation,
                  rec_texts  |-> [k \in 1..n |-> data.rec_texts[sorted_indices[k]]],
                  rec_scores |-> [k \in 1..n |-> data.rec_scores[sorted_indices[k]]],
                  rec_polys  |-> [k \in 1..n |-> data.rec_polys[sorted_indices[k]]]]
         IN  filter_by_orientation(orientation, handler_ocr_data)

\* the objects of the input the returned record is made of
TheRecord == {"record", "rec_polys", "rec_texts", "rec_scores"}

\* a result that is never the input record
SharedWithInput_Copy(data) == {}

\* what sort_by_orientation returns is made of: "return ocr_data" of the
\* except branch hands back the caller's dict with its three lists, while
\* filter_by_orientation returns a dict literal around the lists filtered_texts,
\* filtered_scores and filtered_polys it has built
SharedWithInput(data) == IF SortRaises(data) THEN TheRecord ELSE {}

-----------------------------------------------------------------------------
(* OCR results the detector can hand over *)

\* the four corners of an axis-aligned box, in the detector's order
\* (top-left, top-right, bottom-right, bottom-left)
Quad(x, y, w, h) == <<<<x, y>>, <<x + w, y>>, <<x + w, y + h>>, <<x, y + h>>>>

\* tall boxes (aspect 0.5) of two columns, around them boxes whose centres are
\* 8, 16 and 24 away, a wide tall box, and a wide tall box that has the
\* x-centre of the first column and the right edge of the box 24 away
TallQuads ==
    {Quad(80, 0, 20, 40), Quad(80, 50, 20, 40), Quad(80, 100, 20, 40),
     Quad(30, 0, 20, 40), Quad(88, 0, 20, 40), Quad(96, 50, 20, 40),
     Quad(104, 0, 20, 40), Quad(70, 0, 60, 120), Quad(480, 50, 20, 40),
     Quad(56, 10, 68, 140)}

\* flat boxes: aspect 5, 3, 1.5, 1.45 and a box of height 0
FlatQuads ==
    {Quad(0, 0, 40, 8), Quad(50, 0, 40, 8), Quad(0, 10, 40, 8),
     Quad(0, 0, 90, 30), Quad(0, 0, 30, 20), Quad(50, 10, 29, 20),
     Quad(0, 50, 20, 0)}

\* boxes in the band between the two: aspect 1.2, 0.8, and a slanted
\* quadrilateral of aspect 1
NearSquareQuads ==
    {Quad(0, 0, 12, 10), Quad(0, 50, 12, 10), Quad(0, 0, 16, 20), Quad(50, 0, 16, 20),
     <<<<2, 0>>, <<20, 2>>, <<18, 20>>, <<0, 18>>>>}

QuadSet == TallQuads \cup FlatQuads \cup NearSquareQuads

Text(k) == <<"text", k>>
Score(k) == <<"score", k>>

\* an OCR result of n detections; detection k is the k-th the detector emitted
MkOcrData(quads) ==
    [rec_polys  |-> [k \in 1..Len(quads) |-> [det |-> k, pts |-> quads[k]]],
     rec_texts  |-> [k \in 1..Len(quads) |-> Text(k)],
     rec_scores |-> [k \in 1..Len(quads) |-> Score(k)]]

OcrResults == {MkOcrData(q) : q \in UNION {[1..n -> QuadSet] : n \in 0..MaxLen}}

\* boxes at the edges of the detection: two squares, one above the other, a
\* tall box, a flat box, a box of height 0 and a box of width 0
EdgeQuads ==
    {Quad(0, 0, 10, 10), Quad(0, 50, 10, 10), Quad(80, 0, 20, 40),
     Quad(0, 0, 40, 8), Quad(0, 50, 20, 0), Quad(30, 0, 0, 20)}

\* polygons that are not 4 numeric points: 2 points (a flat one, and one of
\* aspect 1.2), no points, and 4 points with a coordinate that is not a number
MalformedPolys ==
    {<<<<50, 0>>, <<90, 8>>>>, <<<<0, 0>>, <<12, 10>>>>, <<>>,
     <<<<NotANumber, 0>>, <<20, 0>>, <<20, 40>>, <<NotANumber, 40>>>>}

\* by how many elements rec_texts and rec_scores are longer than rec_polys
LengthDefects == {-1, 0, 1} \X {-1, 0, 1}

\* an OCR result of Len(polys) polygons whose rec_texts has dt and whose
\* rec_scores has ds elements more
MkRawOcrData(polys, dt, ds) ==
    [rec_polys  |-> [k \in 1..Len(polys) |-> [det |-> k, pts |-> polys[k]]],
     rec_texts  |-> [k \in 1..(Len(polys) + dt) |-> Text(k)],
     rec_scores |-> [k \in 1..(Len(polys) + ds) |-> Score(k)]]

\* OCR results as the caller may hand them over, well-formed or not
RawOcrResults ==
    {MkRawOcrData(q, d[1], d[2]) :
        q \in UNION {[1..n -> EdgeQuads \cup MalformedPolys] : n \in 0..MaxLen},
        d \in LengthDefects}

NoResult == [none |-> TRUE]

-----------------------------------------------------------------------------
(* The post-processing of one OCR result: detect, then sort *)

\* page_data.get("ocr") of a page without OCR data
NoOcr == [none |-> TRUE]

\* the pages of the open document (page numbers as GlobalState.current_page)
Pages == {0, 1}

-----------------------------------------------------------------------------
(* GlobalState: the cache of the opened PDF files and its JSON files *)

\* ocr_cache_max of GlobalState
ocr_cache_max == 6

\* a path is <<directory, file name>>; os.path.basename
basename(file_path) == file_path[2]

\* current_pdf_file = None
NoPath == <<"", "None">>

\* the PDF files of the run: 1.pdf in two directories, and six more
\* documents that fill the cache
OcrPaths == {<<"a", "1.pdf">>, <<"b", "1.pdf">>}
FillerNames == <<"2.pdf", "3.pdf", "4.pdf", "5.pdf", "6.pdf", "7.pdf">>
FillerPaths == {<<"a", FillerNames[k]>> : k \in DOMAIN FillerNames}
PdfPaths == OcrPaths \cup FillerPaths
Basenames == {basename(f) : f \in PdfPaths} \cup {"None"}

\* a page without cached data ({} of get_pdf_page_data), and the page data
\* {"ocr": ...} of save_pdf_page_data: ocr names the page that was rendered for
\* the OCR pass; saved is history, the file that was current at the save
NoPage == [none |-> TRUE]
PageData(job, file) == [ocr |-> job, saved |-> file]

\* file_data {} and a file_data as page -> page data; the key of page p is
\* str(p) in the cache and in the JSON file alike
EmptyData == [p \in Pages |-> NoPage]

\* a file <basename>.json: absent, opened for writing and still empty, or
\* holding the file_data that json.dump wrote
Absent == [state |-> "absent", data |-> EmptyData]
OpenedForWriting == [state |-> "truncated", data |-> EmptyData]
Written(file_data) == [state |-> "written", data |-> file_data]

\* the JSON file an earlier session has left for 2.pdf: its page 0
SavedEarlier ==
    Written([EmptyData EXCEPT ![0] =
                 PageData([file |-> <<"a", "2.pdf">>, page |-> 0], <<"a", "2.pdf">>)])

NoJob == [none |-> TRUE]

\* key in ocr_cache, ocr_cache[key], ocr_cache.move_to_end(key), and
\* ocr_cache[key] = file_data, which leaves an existing key in its place
HasKey(c, key) == \E i \in DOMAIN c : c[i].key = key
IndexOf(c, key) == CHOOSE i \in DOMAIN c : c[i].key = key
move_to_end_Not(c, key) == c
move_to_end(c, key) ==
    LET other(e) == e.key # key
    IN  SelectSeq(c, other) \o <<c[IndexOf(c, key)]>>
SetItem(c, key, file_data) ==
    IF HasKey(c, key) THEN [c EXCEPT ![IndexOf(c, key)].data = file_data]
    ELSE Append(c, [key |-> key, data |-> file_data])
Keys(c) == [i \in DOMAIN c |-> c[i].key]

\* GlobalState.get_pdf_data with current_pdf_basename = b: the value it
\* returns and the cache it leaves
get_pdf_data(c, b) == IF HasKey(c, b) THEN c[IndexOf(c, b)].data ELSE EmptyData
AfterGet(c, b) == IF HasKey(c, b) THEN move_to_end(c, b) ELSE c

\* GlobalState.get_pdf_page_data
get_pdf_page_data(c, b, page) == get_pdf_data(c, b)[page]

\* GlobalState.load_cache with current_pdf_basename = b: the cache, and
\* whether the file was removed because json.load failed on it
LoadRemoves(c, d, b) == get_pdf_data(c, b) = EmptyData /\ d[b].state = "truncated"
load_cache(c, d, b) ==
    LET c1 == AfterGet(c, b)
    IN  IF get_pdf_data(c, b) # EmptyData THEN c1
        ELSE IF d[b].state = "written" THEN SetItem(c1, b, d[b].data)
        ELSE SetItem(c1, b, EmptyData)

\* a cache that is never cleaned
Evict_Never(c) == c

\* while len(ocr_cache) > ocr_cache_max: ocr_cache.popitem(last=False)
RECURSIVE Evict(_)
Evict(c) == IF Len(c) > ocr_cache_max THEN Evict(Tail(c)) ELSE c

\* the history of use after file name b has been opened or read
Used(r, b) ==
    LET other(x) == x # b
    IN  SelectSeq(r, other) \o <<b>>

\* GlobalState before a PDF file has been opened
GlobalStateStart ==
    /\ current_pdf_file = NoPath
    /\ current_pdf_basename = "None"
    /\ ocr_cache = <<>>
    /\ disk = [b \in Basenames |-> IF b = "2.pdf" THEN SavedEarlier ELSE Absent]
    /\ save_threads = <<>>
    /\ ocr_job = NoJob
    /\ returned = NoPage
    /\ opens = 0
    /\ recency = <<>>

\* the application before a page has been recognised
AppStart ==
    /\ cache = [p \in Pages |-> NoOcr]
    /\ current_page = 0
    /\ scale_factor = 1
    /\ ocr_boxes = <<>>
    /\ selected_index = -1
    /\ resize_edge = "none"
    /\ is_dragging = FALSE
    /\ drag_start_pos = FALSE
    /\ table_rows = 0
    /\ selected_text_index = -1
    /\ resizes = 0
    /\ ocr_runs = 0
    /\ done = {}
    /\ GlobalStateStart

SortInit ==
    /\ ocr_data \in OcrResults
    /\ detected = "none"
    /\ result = NoResult
    /\ pc = "input"
    /\ shared = {}
    /\ AppStart

\* a call of detect_text_orientation by itself; "raised" when the exception
\* reaches the caller
DetectTextOrientation ==
    /\ pc = "input"
    /\ detected' = IF DetectRaises(ocr_data) THEN "raised"
                   ELSE detect_text_orientation(ocr_data)
    /\ pc' = "detected"
    /\ UNCHANGED <<ocr_data, result, shared, appvars>>

\* the call with the lists of the caller sorted in place
SortByOrientation_InPlace ==
    /\ pc = "detected"
    /\ result' = sort_by_orientation(ocr_data)
    /\ ocr_data' = IF SortRaises(ocr_data) THEN ocr_data
                   ELSE [f \in DOMAIN ocr_data |-> sort_by_orientation(ocr_data)[f]]
    /\ shared' = SharedWithInput(ocr_data)
    /\ pc' = "sorted"
    /\ UNCHANGED <<detected, appvars>>

\* the call of sort_by_orientation, as in ocr_success; no statement of it, of
\* detect_text_orientation or of filter_by_orientation writes to ocr_data or
\* to one of its lists
SortByOrientation ==
    /\ pc = "detected"
    /\ result' = sort_by_orientation(ocr_data)
    /\ shared' = SharedWithInput(ocr_data)
    /\ pc' = "sorted"
    /\ UNCHANGED <<ocr_data, detected, appvars>>

SortNext == DetectTextOrientation \/ SortByOrientation

SortSpec == SortInit /\ [][SortNext]_vars

-----------------------------------------------------------------------------
(* The application around the cached pages: helpers *)

\* value calculate_scale_factor returns for the fit mode and viewport tried
Scales == {2}

\* pixel size of a page rendered at scale 1
PageSize == [width |-> 200, height |-> 160]

\* mouse movement between two mouseMoveEvents
Deltas == {16}

\* the handles of the selected box the mouse is pressed on (values of
\* OverlayWidget.resize_edge)
Handles == {"left", "bottomright"}

\* boxes the detector finds on the pages of the open document
AppQuads == {Quad(80, 0, 20, 40), Quad(30, 50, 20, 40)}

AppOcrResults == {MkOcrData(q) : q \in UNION {[1..n -> AppQuads] : n \in 0..MaxLen}}

\* del s[idx] of a Python list, idx a valid index (0-based)
RemoveAt(s, idx) == [k \in 1..(Len(s) - 1) |-> IF k <= idx THEN s[k] ELSE s[k + 1]]

\* s[a], s[b] = s[b], s[a] with 1-based positions
SwapAt(s, a, b) == [s EXCEPT ![a] = s[b], ![b] = s[a]]

\* a polygon with every point multiplied by scale_factor
ScalePoly(poly, scale) ==
    [det |-> poly.det,
     pts |-> [k \in DOMAIN poly.pts |-> <<poly.pts[k][1] * scale, poly.pts[k][2] * scale>>]]

\* PDFViewerWidget.get_scaled_boxes_data: zip(rec_polys, rec_texts), scaled
get_scaled_boxes_data(ocr, scale) ==
    [i \in 1..Min({Len(ocr.rec_polys), Len(ocr.rec_texts)}) |->
        <<ScalePoly(ocr.rec_polys[i], scale), ocr.rec_texts[i]>>]

\* OverlayWidget.set_selected_index(index, send_selection_changed_signal),
\* the signal left to the caller
set_selected_index(index) ==
    /\ selected_index' = index
    /\ IF index < 0
       THEN resize_edge' = "none" /\ is_dragging' = FALSE /\ drag_start_pos' = FALSE
       ELSE UNCHANGED <<resize_edge, is_dragging, drag_start_pos>>

\* PDFViewerWidget.show_ocr_boxes(ocr_data) -> OverlayWidget.set_ocr_boxes
show_ocr_boxes(ocr, scale) ==
    /\ ocr_boxes' = get_scaled_boxes_data(ocr, scale)
    /\ set_selected_index(-1)

\* ProofreadTabWidget.show_ocr_text(show_ocr_box=False) on the page data ocr
ShowTable(ocr) ==
    IF ocr = NoOcr
    THEN table_rows' = 0 /\ UNCHANGED selected_text_index
    ELSE table_rows' = Len(ocr.rec_texts) /\ selected_text_index' = -1

\* ProofreadTabWidget.set_selection_from_pdf(row), reached from the overlay's
\* selection_changed signal, on the page data ocr
set_selection_from_pdf(row, ocr) ==
    IF row = selected_text_index THEN UNCHANGED proofread
    ELSE LET rows == IF ocr = NoOcr THEN 0 ELSE Len(ocr.rec_texts)
         IN  /\ table_rows' = rows
             /\ selected_text_index' = IF 0 <= row /\ row < rows THEN row ELSE -1

\* the rectangle of _resize_selected_box after the dragged edge has moved by
\* (dx, dy), as (left, top, right, bottom); width and height are the overlay's
ResizedRect(poly, edge, dx, dy, width, height) ==
    LET b == BoxOf(poly)
    IN  <<IF edge \in {"left", "topleft", "bottomleft"} THEN Max({0, b[1] + dx}) ELSE b[1],
          IF edge \in {"top", "topleft", "topright"} THEN Max({0, b[2] + dy}) ELSE b[2],
          IF edge \in {"right", "topright", "bottomright"}
              THEN Min({width, b[3] + dx}) ELSE b[3],
          IF edge \in {"bottom", "bottomleft", "bottomright"}
              THEN Min({height, b[4] + dy}) ELSE b[4]>>

\* the swap of move_row_up / move_row_down applied to the texts only
SwapRows_TextsOnly(ocr, a, b) ==
    [ocr EXCEPT !.rec_texts = SwapAt(@, a, b)]

\* the swap of move_row_up / move_row_down at the 1-based positions a and b
\* of rec_texts: the polygons and the scores follow when their list is not
\* empty and as long as rec_texts
SwapRows(ocr, a, b) ==
    [ocr EXCEPT
        !.rec_texts = SwapAt(@, a, b),
        !.rec_polys = IF @ # <<>> /\ Len(@) = Len(ocr.rec_texts)
                      THEN SwapAt(@, a, b) ELSE @,
        !.rec_scores = IF @ # <<>> /\ Len(@) = Len(ocr.rec_texts)
                       THEN SwapAt(@, a, b) ELSE @]

\* delete_box(idx) raises IndexError on the page data ocr
DeleteRaises(ocr, idx) ==
    \/ ocr = NoOcr
    \/ idx >= Len(ocr.rec_texts)
    \/ idx >= Len(ocr.rec_scores)
    \/ idx >= Len(ocr.rec_polys)

\* the page data after the three del statements of delete_box(idx); a del
\* past the end of its list raises IndexError and ends the handler
DeleteFromPage(ocr, idx) ==
    IF ocr = NoOcr THEN ocr
    ELSE LET ok_texts == idx < Len(ocr.rec_texts)
             ok_scores == ok_texts /\ idx < Len(ocr.rec_scores)
             ok_polys == ok_scores /\ idx < Len(ocr.rec_polys)
         IN  [ocr EXCEPT
                 !.rec_texts = IF ok_texts THEN RemoveAt(@, idx) ELSE @,
                 !.rec_scores = IF ok_scores THEN RemoveAt(@, idx) ELSE @,
                 !.rec_polys = IF ok_polys THEN RemoveAt(@, idx) ELSE @]

-----------------------------------------------------------------------------
(* The application around the cached pages: handlers *)

Init ==
    /\ ocr_data = NoResult
    /\ detected = "none"
    /\ result = NoResult
    /\ pc = "idle"
    /\ shared = {}
    /\ AppStart

\* OCRTabWidget.start_ocr: the current page is rendered and handed to an
\* OCRWorker, whose result is in flight until ocr_success or ocr_fail
StartOcr ==
    /\ pc = "idle"
    /\ ocr_runs < MaxOcrRuns
    /\ ocr_data' \in AppOcrResults
    /\ pc' = "ocr_running"
    /\ ocr_runs' = ocr_runs + 1
    /\ UNCHANGED <<detected, result, shared, gsvars, cache, current_page, scale_factor,
                   overlay, proofread, resizes, done>>

\* OCRTabWidget.ocr_success: the sorted result is saved as the "ocr" of the
\* current page, the OCR list is rebuilt and the boxes are shown
OcrSuccess ==
    /\ pc = "ocr_running"
    /\ LET ocr == sort_by_orientation(ocr_data)
       IN  /\ cache' = [cache EXCEPT ![current_page] = ocr]
           /\ show_ocr_boxes(ocr, scale_factor)
    /\ pc' = "idle"
    /\ ocr_data' = NoResult
    /\ done' = done \cup {"sort_by_orientation"}
    /\ UNCHANGED <<detected, result, shared, gsvars, current_page, scale_factor,
                   proofread, resizes, ocr_runs>>

\* OCRTabWidget.ocr_fail
OcrFail ==
    /\ pc = "ocr_running"
    /\ pc' = "idle"
    /\ ocr_data' = NoResult
    /\ UNCHANGED <<detected, result, shared, appvars>>

\* PDFViewerWidget.show_page for page p (prev_page, next_page, goto_page, and
\* with p the current page a zoom or a window resize), followed by
\* MainWindow.on_pdf_page_changed.  show_page shows the boxes of the page
\* GlobalState still holds as current, or hides them; then set_page(p) and the
\* tabs' load_page_state show the boxes of page p when it has OCR data.
ShowPage(p, scale) ==
    LET old == cache[current_page]
        new == cache[p]
    IN  /\ current_page' = p
        /\ scale_factor' = scale
        /\ IF new # NoOcr
           THEN /\ show_ocr_boxes(new, scale)
                /\ ShowTable(new)
           ELSE /\ IF old # NoOcr THEN show_ocr_boxes(old, scale)
                   ELSE ocr_boxes' = <<>> /\ set_selected_index(-1)
                /\ table_rows' = 0
                /\ selected_text_index' =
                       IF old # NoOcr THEN selected_text_index ELSE -1
        /\ UNCHANGED <<sortvars, gsvars, cache, resizes, ocr_runs, done>>

GotoPage == \E p \in Pages, scale \in Scales : ShowPage(p, scale)

\* ProofreadTabWidget.showEvent: show_ocr_text()
ShowProofreadTab ==
    LET ocr == cache[current_page]
    IN  /\ ShowTable(ocr)
        /\ IF ocr = NoOcr THEN UNCHANGED overlay
           ELSE show_ocr_boxes(ocr, scale_factor)
        /\ UNCHANGED <<sortvars, gsvars, cache, current_page, scale_factor, resizes,
                       ocr_runs, done>>

\* ProofreadTabWidget.on_text_line_selected(row, col): the current cell of the
\* table moves to a row of the table, or to no row
SelectTableRow ==
    \E row \in -1..(table_rows - 1) :
        /\ row # selected_text_index
        /\ selected_text_index' = row
        /\ set_selected_index(row)
        /\ UNCHANGED <<sortvars, gsvars, cache, current_page, scale_factor, ocr_boxes,
                       table_rows, resizes, ocr_runs, done>>

\* OverlayWidget.mousePressEvent on the x button of box idx: delete_box(idx).
\* The box leaves ocr_boxes first; when a del on the page data raises
\* IndexError the handler ends there.
PressDeleteButton ==
    \E idx \in 0..(Len(ocr_boxes) - 1) :
        LET ocr == cache[current_page]
            after == DeleteFromPage(ocr, idx)
        IN  /\ ocr_boxes' = RemoveAt(ocr_boxes, idx)
            /\ cache' = [cache EXCEPT ![current_page] = after]
            /\ IF DeleteRaises(ocr, idx)
               THEN UNCHANGED <<selected_index, resize_edge, is_dragging,
                                drag_start_pos, proofread>>
               ELSE set_selected_index(-1) /\ set_selection_from_pdf(-1, after)
            /\ done' = IF after # ocr THEN done \cup {"delete_box"} ELSE done
            /\ UNCHANGED <<sortvars, gsvars, current_page, scale_factor, resizes, ocr_runs>>

\* mousePressEvent inside box idx: set_selected_index(idx), whose signal
\* reaches set_selection_from_pdf
PressInBox ==
    \E idx \in 0..(Len(ocr_boxes) - 1) :
        /\ set_selected_index(idx)
        /\ set_selection_from_pdf(idx, cache[current_page])
        /\ UNCHANGED <<sortvars, gsvars, cache, current_page, scale_factor, ocr_boxes,
                       resizes, ocr_runs, done>>

\* _check_resize_edge reads ocr_boxes[selected_index]
SelectionValid == 0 <= selected_index /\ selected_index < Len(ocr_boxes)

\* mousePressEvent on a corner or an edge of the selected box
PressResizeHandle ==
    /\ SelectionValid
    /\ resize_edge' \in Handles
    /\ is_dragging' = TRUE
    /\ drag_start_pos' = TRUE
    /\ UNCHANGED <<sortvars, gsvars, cache, current_page, scale_factor, ocr_boxes,
                   selected_index, proofread, resizes, ocr_runs, done>>

\* mousePressEvent outside every box and handle while a box is selected
PressElsewhere ==
    /\ SelectionValid
    /\ set_selected_index(-1)
    /\ set_selection_from_pdf(-1, cache[current_page])
    /\ UNCHANGED <<sortvars, gsvars, cache, current_page, scale_factor, ocr_boxes,
                   resizes, ocr_runs, done>>

\* mouseReleaseEvent
MouseRelease ==
    /\ is_dragging' = FALSE
    /\ resize_edge' = "none"
    /\ UNCHANGED <<sortvars, gsvars, cache, current_page, scale_factor, ocr_boxes,
                   selected_index, drag_start_pos, proofread, resizes, ocr_runs, done>>

\* the polygon _resize_selected_box builds from the rectangle, for the
\* detection whose box is dragged
ResizedPoly(poly, rect) ==
    [det |-> poly.det,
     pts |-> <<<<rect[1], rect[2]>>, <<rect[3], rect[2]>>,
               <<rect[3], rect[4]>>, <<rect[1], rect[4]>>>>]

\* mouseMoveEvent during a drag: _resize_selected_box(pos).  (Without a drag
\* mouseMoveEvent only recomputes resize_edge, which mousePressEvent
\* recomputes before it reads it.)  _resize_selected_box returns
\* without a change when the rectangle gets narrower or lower than 10, and
\* raises IndexError, before any write, when ocr_boxes or the rec_polys of the
\* current page have no position selected_index.
MouseDrag ==
    /\ is_dragging /\ resize_edge # "none"
    /\ drag_start_pos /\ selected_index >= 0
    /\ resizes < MaxResizes
    /\ selected_index < Len(ocr_boxes)
    /\ \E dx \in Deltas, dy \in Deltas :
        LET box == ocr_boxes[selected_index + 1]
            rect == ResizedRect(box[1], resize_edge, dx, dy,
                                PageSize.width * scale_factor,
                                PageSize.height * scale_factor)
            poly == ResizedPoly(box[1], rect)
            ocr == cache[current_page]
        IN  /\ ~(rect[3] - rect[1] < 10 \/ rect[4] - rect[2] < 10)
            /\ ocr # NoOcr
            /\ selected_index < Len(ocr.rec_polys)
            /\ cache' = [cache EXCEPT
                   ![current_page].rec_polys[selected_index + 1] = poly]
            /\ ocr_boxes' = [ocr_boxes EXCEPT ![selected_index + 1] = <<poly, box[2]>>]
    /\ resizes' = resizes + 1
    /\ done' = done \cup {"_resize_selected_box"}
    /\ UNCHANGED <<sortvars, gsvars, current_page, scale_factor, selected_index,
                   resize_edge, is_dragging, drag_start_pos, proofread, ocr_runs>>

\* what follows the swap in move_row_up / move_row_down: show_ocr_text()
\* rebuilds the table and the boxes, and selectRow(row) makes
\* on_text_line_selected(row) run when the current cell of the table changes
AfterMove(ocr, row) ==
    /\ ocr_boxes' = get_scaled_boxes_data(ocr, scale_factor)
    /\ resize_edge' = "none" /\ is_dragging' = FALSE /\ drag_start_pos' = FALSE
    /\ table_rows' = Len(ocr.rec_texts)
    /\ \E sel \in {-1, row} : selected_text_index' = sel /\ selected_index' = sel

\* ProofreadTabWidget.move_row_up(row), row a row of the table whose up
\* button is enabled.  On a table that shows more rows than the page has
\* texts, rec_texts[row] raises IndexError before anything is swapped.
MoveRowUp ==
    \E row \in 1..(table_rows - 1) :
        LET ocr == cache[current_page]
        IN  /\ ocr # NoOcr
            /\ row < Len(ocr.rec_texts)
            /\ LET after == SwapRows(ocr, row, row + 1)
               IN  /\ cache' = [cache EXCEPT ![current_page] = after]
                   /\ AfterMove(after, row - 1)
            /\ done' = done \cup {"move_row_up"}
            /\ UNCHANGED <<sortvars, gsvars, current_page, scale_factor, resizes, ocr_runs>>

\* ProofreadTabWidget.move_row_down(row), row a row of the table whose down
\* button is enabled; it returns when row >= len(rec_texts) - 1
MoveRowDown ==
    \E row \in 0..(table_rows - 2) :
        LET ocr == cache[current_page]
        IN  /\ ocr # NoOcr
            /\ ~(row >= Len(ocr.rec_texts) - 1)
            /\ LET after == SwapRows(ocr, row + 1, row + 2)
               IN  /\ cache' = [cache EXCEPT ![current_page] = after]
                   /\ AfterMove(after, row + 1)
            /\ done' = done \cup {"move_row_down"}
            /\ UNCHANGED <<sortvars, gsvars, current_page, scale_factor, resizes, ocr_runs>>

Next ==
    \/ StartOcr
    \/ OcrSuccess
    \/ OcrFail
    \/ GotoPage
    \/ ShowProofreadTab
    \/ SelectTableRow
    \/ PressDeleteButton
    \/ PressInBox
    \/ PressResizeHandle
    \/ PressElsewhere
    \/ MouseDrag
    \/ MouseRelease
    \/ MoveRowUp
    \/ MoveRowDown

Spec == Init /\ [][Next]_vars

-----------------------------------------------------------------------------
(* The post-processing of a result of any shape, and the edits of the record *)
(* it returned, which ocr_success saves as the "ocr" of the page             *)

RawInit ==
    /\ ocr_data \in RawOcrResults
    /\ detected = "none"
    /\ result = NoResult
    /\ pc = "input"
    /\ shared = {}
    /\ AppStart

\* the input after an in-place edit has turned the returned record into
\* after: a list of the input that is the same object has changed with it
InputAfterEdit(after) ==
    IF "record" \in shared THEN after
    ELSE [f \in DOMAIN ocr_data |-> IF f \in shared THEN after[f] ELSE ocr_data[f]]

\* OverlayWidget.delete_box(idx) on the saved record: idx is a box of the
\* overlay, which shows zip(rec_polys, rec_texts); the three del statements
EditDeleteBox ==
    /\ pc = "sorted"
    /\ \E idx \in 0..(Min({Len(result.rec_polys), Len(result.rec_texts)}) - 1) :
           LET after == DeleteFromPage(result, idx)
           IN  result' = after /\ ocr_data' = InputAfterEdit(after)
    /\ pc' = "edited"
    /\ UNCHANGED <<detected, shared, appvars>>

\* ProofreadTabWidget.move_row_up(row) on the saved record, row a row of the
\* table below the first (move_row_down(row - 1) is the same swap)
EditMoveRow ==
    /\ pc = "sorted"
    /\ \E row \in 1..(Len(result.rec_texts) - 1) :
           LET after == SwapRows(result, row, row + 1)
           IN  result' = after /\ ocr_data' = InputAfterEdit(after)
    /\ pc' = "edited"
    /\ UNCHANGED <<detected, shared, appvars>>

RawNext == DetectTextOrientation \/ SortByOrientation \/ EditDeleteBox \/ EditMoveRow

RawSpec == RawInit /\ [][RawNext]_vars

-----------------------------------------------------------------------------
(* GlobalState under the calls of the UI thread and the threads of save_cache *)

\* the documents the run opens: a/1.pdf and b/1.pdf at any time, each further
\* document once, 2.pdf before 3.pdf and so on
CanOpen(file_path) ==
    \/ file_path \in OcrPaths
    \/ \E k \in DOMAIN FillerNames :
           /\ basename(file_path) = FillerNames[k]
           /\ \A i \in DOMAIN recency : recency[i] # FillerNames[k]
           /\ k > 1 => \E i \in DOMAIN recency : recency[i] = FillerNames[k - 1]

\* GlobalState.set_pdf_file(file_path): load_cache, move_to_end, eviction.
\* When json.load fails on a file that a save thread has opened and not yet
\* written, load_cache removes the file and the thread writes into a file
\* that has no name any more.
SetPdfFile ==
    \E file_path \in PdfPaths :
        /\ opens < MaxOpens
        /\ CanOpen(file_path)
        /\ LET b == basename(file_path)
               removes == LoadRemoves(ocr_cache, disk, b)
           IN  /\ current_pdf_file' = file_path
               /\ current_pdf_basename' = b
               /\ ocr_cache' = Evict(move_to_end(load_cache(ocr_cache, disk, b), b))
               /\ disk' = IF removes THEN [disk EXCEPT ![b] = Absent] ELSE disk
               /\ save_threads' =
                      [t \in DOMAIN save_threads |->
                          IF removes /\ save_threads[t].pc = "opened" /\ save_threads[t].path = b
                          THEN [save_threads[t] EXCEPT !.unlinked = TRUE]
                          ELSE save_threads[t]]
               /\ recency' = Used(recency, b)
        /\ opens' = opens + 1
        /\ UNCHANGED <<sortvars, uivars, current_page, ocr_runs, ocr_job, returned>>

\* GlobalState.set_page(page_num)
SetPage ==
    \E page_num \in Pages :
        /\ page_num # current_page
        /\ current_page' = page_num
        /\ UNCHANGED <<sortvars, uivars, ocr_runs, gsvars>>

\* the history of use after a get_pdf_data call
UsedByGet == IF HasKey(ocr_cache, current_pdf_basename)
             THEN Used(recency, current_pdf_basename) ELSE recency

\* GlobalState.get_pdf_page_data() called by the UI
GetPdfPageData ==
    /\ returned' = get_pdf_page_data(ocr_cache, current_pdf_basename, current_page)
    /\ ocr_cache' = AfterGet(ocr_cache, current_pdf_basename)
    /\ recency' = UsedByGet
    /\ UNCHANGED <<sortvars, uivars, current_page, ocr_runs, current_pdf_file,
                   current_pdf_basename, disk, save_threads, ocr_job, opens>>

\* OCRTabWidget.start_ocr with a document open: the page config.last_open_page
\* of the document is rendered and handed to an OCRWorker
CacheStartOcr ==
    /\ pc = "idle"
    /\ ocr_runs < MaxOcrRuns
    /\ current_pdf_file # NoPath
    /\ ocr_job' = [file |-> current_pdf_file, page |-> current_page]
    /\ pc' = "ocr_running"
    /\ ocr_runs' = ocr_runs + 1
    /\ UNCHANGED <<ocr_data, detected, result, shared, uivars, current_page,
                   current_pdf_file, current_pdf_basename, ocr_cache, disk,
                   save_threads, returned, opens, recency>>

\* OCRTabWidget.ocr_success: save_pdf_page_data({"ocr": ...}) writes the page
\* data under current_pdf_basename and str(current_page), and save_cache
\* starts a thread
CacheOcrSuccess ==
    /\ pc = "ocr_running"
    /\ LET b == current_pdf_basename
           c1 == AfterGet(ocr_cache, b)
           file_data == [get_pdf_data(c1, b) EXCEPT
                            ![current_page] = PageData(ocr_job, current_pdf_file)]
       IN  /\ ocr_cache' = SetItem(AfterGet(c1, b), b, file_data)
           /\ save_threads' = Append(save_threads,
                  [for |-> b, pc |-> "start", path |-> "None", unlinked |-> FALSE])
    /\ recency' = UsedByGet
    /\ pc' = "idle"
    /\ ocr_job' = NoJob
    /\ UNCHANGED <<ocr_data, detected, result, shared, uivars, current_page, ocr_runs,
                   current_pdf_file, current_pdf_basename, disk, returned, opens>>

\* OCRTabWidget.ocr_fail
CacheOcrFail ==
    /\ pc = "ocr_running"
    /\ pc' = "idle"
    /\ ocr_job' = NoJob
    /\ UNCHANGED <<ocr_data, detected, result, shared, uivars, current_page, ocr_runs,
                   current_pdf_file, current_pdf_basename, ocr_cache, disk,
                   save_threads, returned, opens, recency>>

\* _save of a save thread, first part: cache_path from the
\* current_pdf_basename of this moment, and open(cache_path, "w")
SaveThreadOpen ==
    \E t \in DOMAIN save_threads :
        /\ save_threads[t].pc = "start"
        /\ save_threads' = [save_threads EXCEPT
               ![t] = [@ EXCEPT !.pc = "opened", !.path = current_pdf_basename]]
        /\ disk' = [disk EXCEPT ![current_pdf_basename] = OpenedForWriting]
        /\ UNCHANGED <<sortvars, uivars, current_page, ocr_runs, current_pdf_file,
                       current_pdf_basename, ocr_cache, ocr_job, returned, opens,
                       recency>>

\* _save, second part: json.dump(GlobalState.get_pdf_data(), f) with the
\* current_pdf_basename of this moment
SaveThreadDump ==
    \E t \in DOMAIN save_threads :
        /\ save_threads[t].pc = "opened"
        /\ save_threads' = [save_threads EXCEPT ![t] = [@ EXCEPT !.pc = "done"]]
        /\ disk' = IF save_threads[t].unlinked THEN disk
                   ELSE [disk EXCEPT ![save_threads[t].path] =
                            Written(get_pdf_data(ocr_cache, current_pdf_basename))]
        /\ ocr_cache' = AfterGet(ocr_cache, current_pdf_basename)
        /\ recency' = UsedByGet
        /\ UNCHANGED <<sortvars, uivars, current_page, ocr_runs, current_pdf_file,
                       current_pdf_basename, ocr_job, returned, opens>>

CacheNext ==
    \/ SetPdfFile
    \/ SetPage
    \/ GetPdfPageData
    \/ CacheStartOcr
    \/ CacheOcrSuccess
    \/ CacheOcrFail
    \/ SaveThreadOpen
    \/ SaveThreadDump

CacheSpec == Init /\ [][CacheNext]_vars

-----------------------------------------------------------------------------
(* Vocabulary of the properties *)

Count(s, x) == Cardinality({i \in DOMAIN s : s[i] = x})

\* the (polygon, text, score) triples of a record whose lists have equal length
Triples(data) ==
    [i \in 1..Len(data.rec_polys) |->
        <<data.rec_polys[i], data.rec_texts[i], data.rec_scores[i]>>]

EqualLengths(data) ==
    /\ Len(data.rec_texts) = Len(data.rec_polys)
    /\ Len(data.rec_scores) = Len(data.rec_polys)

\* width / height of a polygon compared with n / d, a box of height 0 having
\* aspect 10
AspectBelow(poly, n, d) ==
    LET b == BoxOf(poly) IN
    IF b[4] - b[2] > 0 THEN (b[3] - b[1]) * d < n * (b[4] - b[2]) ELSE 10 * d < n
AspectAbove(poly, n, d) ==
    LET b == BoxOf(poly) IN
    IF b[4] - b[2] > 0 THEN (b[3] - b[1]) * d > n * (b[4] - b[2]) ELSE 10 * d > n

InPolys == ocr_data.rec_polys
OutPolys == result.rec_polys
Sorted == pc = "sorted"

\* columns of the input page and the column (position in creation order) of
\* input detection i
InColumns == Columns(BoxesOf(ocr_data))
ColumnOf ==
    LET cols == InColumns
    IN  [i \in DOMAIN InPolys |-> CHOOSE k \in DOMAIN cols : i \in Range(cols[k].items)]

-----------------------------------------------------------------------------
Contradicts(orientation, poly) ==
    IF orientation = "vertical" THEN AspectAbove(poly, 15, 10)
    ELSE AspectBelow(poly, 15, 10)

-----------------------------------------------------------------------------
\* the pages of the cache that hold OCR data
OcrPages == {p \in Pages : cache[p] # NoOcr}

\* C2: after any sequence of sort_by_orientation, delete_box,
\* _resize_selected_box, move_row_up and move_row_down the rec_polys,
\* rec_texts and rec_scores of every cached page have one length, and the
\* polygon, the text and the score at a position belong to the same detection.
C2_ListsStayAligned ==
    \A p \in OcrPages :
        LET ocr == cache[p]
        IN  /\ EqualLengths(ocr)
            /\ \A i \in DOMAIN ocr.rec_polys :
                   /\ ocr.rec_texts[i] = Text(ocr.rec_polys[i].det)
                   /\ ocr.rec_scores[i] = Score(ocr.rec_polys[i].det)

\* all five operations have changed a cached page, and the current page still
\* holds two detections, in an order sort_by_orientation does not produce
C2_Witness ==
    /\ done = {"sort_by_orientation", "delete_box", "_resize_selected_box",
               "move_row_up", "move_row_down"}
    /\ current_page \in OcrPages
    /\ Len(cache[current_page].rec_polys) = 2
    /\ cache[current_page] # sort_by_orientation(cache[current_page])

-----------------------------------------------------------------------------
\* C3:on a horizontal page the returned detections are in ascending order of
\* (ymin, xmin), and detections with equal (ymin, xmin) keep their input order.
C3_HorizontalOrder ==
    (Sorted /\ detected = "horizontal") =>
        \A a, b \in DOMAIN OutPolys :
            a < b =>
                LET ba == BoxOf(OutPolys[a])
                    bb == BoxOf(OutPolys[b])
                IN  \/ ba[2] < bb[2]
                    \/ ba[2] = bb[2] /\ ba[1] < bb[1]
                    \/ ba[2] = bb[2] /\ ba[1] = bb[1] /\ OutPolys[a].det < OutPolys[b].det

C3_Witness ==
    /\ Sorted /\ detected = "horizontal"
    /\ Len(OutPolys) = 3
    /\ \E a, b \in DOMAIN OutPolys :
           a < b /\ BoxOf(OutPolys[a]) = BoxOf(OutPolys[b])
    /\ \E a, b \in DOMAIN OutPolys : a < b /\ OutPolys[a].det > OutPolys[b].det
    /\ \E a, b \in DOMAIN OutPolys :
           a < b /\ BoxOf(OutPolys[a])[2] = BoxOf(OutPolys[b])[2]
                 /\ BoxOf(OutPolys[a])[1] < BoxOf(OutPolys[b])[1]

-----------------------------------------------------------------------------
\* C4: on a vertical page two returned detections of one column are in
\* ascending ymin order.
C4_ColumnTopDown ==
    (Sorted /\ detected = "vertical") =>
        LET col == ColumnOf IN
        \A a, b \in DOMAIN OutPolys :
            (a < b /\ col[OutPolys[a].det] = col[OutPolys[b].det]) =>
                BoxOf(OutPolys[a])[2] <= BoxOf(OutPolys[b])[2]

\* three detections of one column at y = 0, 50, 100, not emitted top-down by
\* the detector
C4_Witness ==
    /\ Sorted /\ detected = "vertical"
    /\ Len(InColumns) = 1
    /\ [p \in DOMAIN OutPolys |-> BoxOf(OutPolys[p])[2]] = <<0, 50, 100>>
    /\ [p \in DOMAIN InPolys |-> BoxOf(InPolys[p])[2]] = <<100, 0, 50>>

-----------------------------------------------------------------------------
\* largest right edge xmax among the members of each column of the input page
ColumnMaxX ==
    LET cols == InColumns
        boxes == BoxesOf(ocr_data)
    IN  [k \in DOMAIN cols |-> Max({boxes[i][3] : i \in Range(cols[k].items)})]

\* first detection, in input order, of each column of the input page
FirstOfColumn ==
    LET cols == InColumns IN [k \in DOMAIN cols |-> Min(Range(cols[k].items))]

\* twice the x-centre of input detection i
Centre2 ==
    LET boxes == BoxesOf(ocr_data) IN [i \in DOMAIN boxes |-> boxes[i][1] + boxes[i][3]]

\* C5 (as stated): on a vertical page every detection of a column with a
\* larger maximum right edge xmax is emitted before any detection of a column
\* with a smaller maximum xmax.
C5_ColumnsByMaxRightEdge ==
    (Sorted /\ detected = "vertical") =>
        LET col == ColumnOf
            maxx == ColumnMaxX
        IN  \A a, b \in DOMAIN OutPolys :
                maxx[col[OutPolys[a].det]] > maxx[col[OutPolys[b].det]] => a < b

\* C5 (amended): on a vertical page the columns are emitted in descending
\* order of the x-centre of each column's first detection in input order:
\* every detection of a column whose first detection has the larger x-centre
\* is emitted before any detection of a column whose first detection has the
\* smaller one.
C5_ColumnsBySeedCentre ==
    (Sorted /\ detected = "vertical") =>
        LET col == ColumnOf
            first == FirstOfColumn
            c2 == Centre2
        IN  \A a, b \in DOMAIN OutPolys :
                c2[first[col[OutPolys[a].det]]] > c2[first[col[OutPolys[b].det]]] => a < b

\* two columns survive the filter, and the column emitted first is not the
\* one that reaches furthest to the right
C5_Witness ==
    /\ Sorted /\ detected = "vertical"
    /\ LET col == ColumnOf
           first == FirstOfColumn
           c2 == Centre2
           maxx == ColumnMaxX
       IN  \E a, b \in DOMAIN OutPolys :
               /\ a < b
               /\ OutPolys[a].det > OutPolys[b].det
               /\ c2[first[col[OutPolys[a].det]]] > c2[first[col[OutPolys[b].det]]]
               /\ maxx[col[OutPolys[a].det]] < maxx[col[OutPolys[b].det]]

-----------------------------------------------------------------------------
\* the right-edge threshold named by C6, max(3, 0.02 * (max xmax - min xmax),
\* 0.2 * mean box width): whether a distance dist exceeds it
ExceedsRightEdgeThreshold(boxes, dist) ==
    LET n == Len(boxes)
        right == {boxes[i][3] : i \in DOMAIN boxes}
        RECURSIVE SumWidth(_)
        SumWidth(i) == IF i = 0 THEN 0 ELSE (boxes[i][3] - boxes[i][1]) + SumWidth(i - 1)
    IN  /\ dist > 3
        /\ 50 * dist > Max(right) - Min(right)
        /\ 5 * n * dist > SumWidth(n)

CentresWithinThreshold(boxes, i, j) ==
    LET edges == UNION {{boxes[k][1], boxes[k][3]} : k \in DOMAIN boxes}
        width == Max(edges) - Min(edges)
        dist2 == Abs((boxes[i][1] + boxes[i][3]) - (boxes[j][1] + boxes[j][3]))
    IN  dist2 <= 20 \/ 10 * dist2 <= width

-----------------------------------------------------------------------------
\* C7: on a vertical page every detection index is in exactly one column, and
\* sorted_indices holds each index exactly once.
C7_ColumnsPartition ==
    (Sorted /\ detected = "vertical") =>
        LET n == Len(InPolys)
            cols == InColumns
            sorted_indices == SortedIndices(BoxesOf(ocr_data), "vertical")
        IN  /\ \A i \in 1..n :
                   Cardinality({<<k, m>> \in (DOMAIN cols) \X (1..n) :
                       m \in DOMAIN cols[k].items /\ cols[k].items[m] = i}) = 1
            /\ \A k \in DOMAIN cols : Range(cols[k].items) \subseteq 1..n
            /\ Len(sorted_indices) = n
            /\ \A i \in 1..n : Count(sorted_indices, i) = 1

\* three detections in two columns, one of them also within the threshold of
\* the other column's key
C7_Witness ==
    /\ Sorted /\ detected = "vertical"
    /\ Len(InPolys) = 3
    /\ LET cols == InColumns
           boxes == BoxesOf(ocr_data)
       IN  /\ Len(cols) = 2
           /\ \E k, j \in DOMAIN cols :
                  /\ j # k
                  /\ \E i \in Range(cols[k].items) :
                         ColumnMatches(XCenter2(boxes[i]), cols[j].key,
                                       ColumnThreshold20(boxes))

-----------------------------------------------------------------------------
Detected == pc # "input"

\* C8 (as stated): on a non-empty page, if every box has aspect > 1.1 the
\* page is horizontal, and if every box has aspect < 0.9 the page is vertical.
C8_AllAspectsBand09_11 ==
    (Detected /\ InPolys # <<>>) =>
        /\ (\A i \in DOMAIN InPolys : AspectAbove(InPolys[i], 11, 10))
               => detected = "horizontal"
        /\ (\A i \in DOMAIN InPolys : AspectBelow(InPolys[i], 9, 10))
               => detected = "vertical"

\* C8 (amended): on a non-empty page, if every box has aspect > 1.4 the page
\* is horizontal, and if every box has aspect < 0.6 the page is vertical,
\* whatever the positions of the boxes.
C8_AllAspectsBand06_14 ==
    (Detected /\ InPolys # <<>>) =>
        /\ (\A i \in DOMAIN InPolys : AspectAbove(InPolys[i], 14, 10))
               => detected = "horizontal"
        /\ (\A i \in DOMAIN InPolys : AspectBelow(InPolys[i], 6, 10))
               => detected = "vertical"

\* several boxes, all of aspect < 0.6, side by side so that the page extent
\* is wider than tall
C8_Witness ==
    /\ Detected
    /\ Len(InPolys) >= 2
    /\ \A i \in DOMAIN InPolys : AspectBelow(InPolys[i], 6, 10)
    /\ LET xs == UNION {XsOf(InPolys[i]) : i \in DOMAIN InPolys}
           ys == UNION {YsOf(InPolys[i]) : i \in DOMAIN InPolys}
       IN  10 * (Max(xs) - Min(xs)) > 8 * (Max(ys) - Min(ys))
    /\ detected = "vertical"

-----------------------------------------------------------------------------
AreaOf(poly) ==
    LET b == BoxOf(poly) IN (b[3] - b[1]) * (b[4] - b[2])

RECURSIVE SumAreas(_, _)
SumAreas(polys, I) ==
    IF I = {} THEN 0
    ELSE LET i == CHOOSE i \in I : TRUE
         IN  AreaOf(polys[i]) + SumAreas(polys, I \ {i})

\* one horizontal box (aspect > hn/10) has more than 1.05 times the summed
\* area of the vertical boxes (aspect < vn/10), which outnumber the horizontal
\* boxes
AreaDominatedByHorizontal(polys, vn, hn) ==
    LET V == {i \in DOMAIN polys : AspectBelow(polys[i], vn, 10)}
        H == {i \in DOMAIN polys : AspectAbove(polys[i], hn, 10)}
    IN  /\ Cardinality(V) > Cardinality(H)
        /\ \E i \in H : 100 * AreaOf(polys[i]) > 105 * SumAreas(polys, V)

\* C9 (as stated): when one horizontal box (aspect > 1.1) has more than 1.05
\* times the summed area of the vertical boxes (aspect < 0.9), the page is
\* horizontal although the vertical boxes are more numerous.
C9_AreaDominance ==
    (Detected /\ AreaDominatedByHorizontal(InPolys, 9, 11)) => detected = "horizontal"

\* C9 (amended): the decision is by count: when the vertical boxes (aspect <
\* 0.6) outnumber the horizontal boxes (aspect > 1.4) the page is vertical,
\* also when one horizontal box has more than 1.05 times the summed area of
\* the vertical boxes.
C9_CountMajority ==
    Detected =>
        LET V == {i \in DOMAIN InPolys : AspectBelow(InPolys[i], 6, 10)}
            H == {i \in DOMAIN InPolys : AspectAbove(InPolys[i], 14, 10)}
        IN  Cardinality(V) > Cardinality(H) => detected = "vertical"

C9_Witness ==
    /\ Detected
    /\ AreaDominatedByHorizontal(InPolys, 6, 14)
    /\ detected = "vertical"

-----------------------------------------------------------------------------
\* C10: for a page without detections detect_text_orientation returns
\* horizontal, and sort_by_orientation raises nothing and returns three empty
\* sequences.
C10_EmptyPage ==
    InPolys = <<>> =>
        /\ Detected => detected = "horizontal"
        /\ Sorted =>
               /\ ~SortRaises(ocr_data)
               /\ result.rec_polys = <<>>
               /\ result.rec_texts = <<>>
               /\ result.rec_scores = <<>>

C10_Witness ==
    /\ Sorted
    /\ InPolys = <<>>
    /\ ocr_data.rec_texts = <<>>
    /\ result # NoResult

-----------------------------------------------------------------------------
\* every polygon has at least one point, and numbers as coordinates
BoxesComputable(data) ==
    \A i \in DOMAIN data.rec_polys :
        /\ data.rec_polys[i].pts # <<>>
        /\ \A k \in DOMAIN data.rec_polys[i].pts :
               /\ data.rec_polys[i].pts[k][1] # NotANumber
               /\ data.rec_polys[i].pts[k][2] # NotANumber

\* the boxes can be computed, and rec_texts and rec_scores are at least as
\* long as rec_polys
Computable(data) ==
    /\ BoxesComputable(data)
    /\ Len(data.rec_texts) >= Len(data.rec_polys)
    /\ Len(data.rec_scores) >= Len(data.rec_polys)

HasTwoPointPolygon == \E i \in DOMAIN InPolys : Len(InPolys[i].pts) = 2

\* a record with every polygon replaced by the four corners of its bounding
\* box (xmin, ymin, xmax, ymax)
AsBoxes(data) ==
    [data EXCEPT !.rec_polys =
        [i \in DOMAIN @ |->
            LET b == BoxOf(@[i])
            IN  [det |-> @[i].det, pts |-> Quad(b[1], b[2], b[3] - b[1], b[4] - b[2])]]]

-----------------------------------------------------------------------------
\* the polygon, the text and the score at every position of a record belong
\* to one detection of the input page
TriplesOfInput(data) ==
    /\ EqualLengths(data)
    /\ \A i \in DOMAIN data.rec_polys :
           /\ data.rec_polys[i] \in Range(InPolys)
           /\ data.rec_texts[i] = Text(data.rec_polys[i].det)
           /\ data.rec_scores[i] = Score(data.rec_polys[i].det)

\* C12: sort_by_orientation propagates no exception.  When something in it
\* raises (a polygon without points, a coordinate that is not a number, a
\* rec_texts or rec_scores shorter than rec_polys) it returns the original
\* page, the three sequences in their original order and length.  The result
\* is all or nothing: the original page, or a fully processed page of three
\* equally long sequences of input triples.
C12_AllOrNothing ==
    Sorted =>
        /\ ~Computable(ocr_data) => result = ocr_data
        /\ result # ocr_data => TriplesOfInput(result)

\* the call has returned for a page of three polygons, one without points
\* and one with a coordinate that is not a number, behind a well-formed one
C12_Witness ==
    /\ Sorted
    /\ Len(InPolys) = 3
    /\ ~BoxRaises(InPolys[1])
    /\ InPolys[2].pts = <<>>
    /\ InPolys[3].pts # <<>> /\ BoxRaises(InPolys[3])
    /\ result = ocr_data

-----------------------------------------------------------------------------
\* C13: a call of sort_by_orientation (and a call of detect_text_orientation)
\* leaves the caller's rec_polys, rec_texts and rec_scores as they were, the
\* same elements in the same order, when it succeeds and when it fails.
C13_InputReadOnly ==
    [][(pc \in {"input", "detected"}) => (ocr_data' = ocr_data)]_vars

\* the call has returned the detections in another order than the detector
\* emitted them, and the input still holds them in the detector's order
C13_Witness ==
    /\ Sorted
    /\ \E a, b \in DOMAIN OutPolys : a < b /\ OutPolys[a].det > OutPolys[b].det
    /\ Len(OutPolys) < Len(InPolys)
    /\ \A k \in DOMAIN InPolys :
           /\ InPolys[k].det = k
           /\ ocr_data.rec_texts[k] = Text(k)
           /\ ocr_data.rec_scores[k] = Score(k)

-----------------------------------------------------------------------------
Returned == pc \in {"sorted", "edited"}

\* C14 (as stated): on every path the record sort_by_orientation returns is
\* not the input record and shares none of its three sequences, so that an
\* in-place edit of the saved record (delete_box, move_row_up, move_row_down)
\* never changes the sequences of the OCR result that was passed in.
C14_AlwaysFresh ==
    /\ [](Returned => shared = {})
    /\ [][(pc = "sorted") => (ocr_data' = ocr_data)]_vars

\* C14 (amended): when the call succeeds (empty input included) the returned
\* record and its three sequences are new objects, and an in-place edit of the
\* saved record leaves the input as it was; when the call fails the returned
\* record is the input record itself, and an in-place edit of the saved
\* record is an edit of the input.
C14_FreshUnlessFailed ==
    /\ [](Sorted => shared = IF Computable(ocr_data) THEN {} ELSE TheRecord)
    /\ [][(pc = "sorted") =>
             IF shared = {} THEN ocr_data' = ocr_data
             ELSE ocr_data' = result' /\ ocr_data' # ocr_data]_vars

\* the call has failed on a page of three detections, and delete_box on the
\* saved record has removed the first detection from the input's sequences
C14_Witness ==
    /\ pc = "edited"
    /\ shared = TheRecord
    /\ ocr_data = result
    /\ [k \in DOMAIN InPolys |-> InPolys[k].det] = <<2, 3>>
    /\ ocr_data.rec_texts = <<Text(2), Text(3)>>
    /\ ocr_data.rec_scores = <<Score(2), Score(3)>>

-----------------------------------------------------------------------------
\* C15 (as stated): every record sort_by_orientation returns, for a page with
\* detections, for an empty page and when the call fails, carries an
\* orientation tag that is "horizontal" or "vertical" and is the orientation
\* the ordering used.
C15_AlwaysTagged ==
    Sorted =>
        /\ "orientation" \in DOMAIN result
        /\ result.orientation \in {"horizontal", "vertical"}
        /\ detected # "raised" => result.orientation = detected

\* C15 (amended): the returned record carries the orientation tag, with the
\* value detect_text_orientation gave and the ordering used, exactly when the
\* call succeeds on a page with at least one polygon; for an empty page and
\* when the call fails the returned record has no orientation tag.
C15_TaggedWhenSortedNonEmpty ==
    Sorted =>
        IF Computable(ocr_data) /\ InPolys # <<>>
        THEN /\ "orientation" \in DOMAIN result
             /\ result.orientation \in {"horizontal", "vertical"}
             /\ result.orientation = detected
        ELSE "orientation" \notin DOMAIN result

\* a vertical page of two detections, returned with its tag
C15_Witness ==
    /\ Sorted
    /\ Len(InPolys) = 2
    /\ "orientation" \in DOMAIN result
    /\ result.orientation = "vertical"
    /\ Len(OutPolys) = 2

-----------------------------------------------------------------------------
\* detect_text_orientation has returned or raised, and the input is as it was
HasDetected == pc \in {"detected", "sorted"}

\* every polygon of the input page has 4 points with numbers as coordinates
ValidPolygons ==
    /\ BoxesComputable(ocr_data)
    /\ \A i \in DOMAIN InPolys : Len(InPolys[i].pts) = 4

ZeroHeight(poly) == BoxOf(poly)[4] = BoxOf(poly)[2]
ZeroWidth(poly) == BoxOf(poly)[3] = BoxOf(poly)[1]

\* C16: on a page whose polygons are 4 numeric points
\* detect_text_orientation raises nothing and returns "horizontal" or
\* "vertical"; a box of height 0 counts as wide (aspect 10), so a page of such
\* boxes, whose extent has height 0, is horizontal; a box of width 0 and
\* positive height counts as a vertical line.
C16_DetectTotal ==
    (HasDetected /\ ValidPolygons) =>
        /\ detected \in {"horizontal", "vertical"}
        /\ (InPolys # <<>> /\ \A i \in DOMAIN InPolys : ZeroHeight(InPolys[i]))
               => detected = "horizontal"
        /\ (InPolys # <<>> /\ \A i \in DOMAIN InPolys :
                                  ZeroWidth(InPolys[i]) /\ ~ZeroHeight(InPolys[i]))
               => detected = "vertical"

\* a page with a box of height 0 and a box of width 0
C16_Witness ==
    /\ HasDetected /\ ValidPolygons
    /\ Len(InPolys) = 2
    /\ ZeroHeight(InPolys[1]) /\ ~ZeroWidth(InPolys[1])
    /\ ZeroWidth(InPolys[2]) /\ ~ZeroHeight(InPolys[2])
    /\ detected = "vertical"

-----------------------------------------------------------------------------
\* width and height of the extent of all boxes of the input page
ExtentOf(polys) ==
    LET xs == UNION {XsOf(polys[i]) : i \in DOMAIN polys}
        ys == UNION {YsOf(polys[i]) : i \in DOMAIN polys}
    IN  <<Max(xs) - Min(xs), Max(ys) - Min(ys)>>

\* the detections of the input page with aspect < n/10, and with aspect > n/10
Below(n) == {i \in DOMAIN InPolys : AspectBelow(InPolys[i], n, 10)}
Above(n) == {i \in DOMAIN InPolys : AspectAbove(InPolys[i], n, 10)}

\* neither the summed area of the boxes with aspect < 0.9 nor that of the
\* boxes with aspect > 1.1 exceeds the other by more than 5%
AreasTied ==
    LET vertical_area == SumAreas(InPolys, Below(9))
        horizontal_area == SumAreas(InPolys, Above(11))
    IN  /\ ~(100 * vertical_area > 105 * horizontal_area)
        /\ ~(100 * horizontal_area > 105 * vertical_area)

\* C17 (as stated): when neither orientation's summed area exceeds the other's
\* by more than 5%, the page is vertical if and only if the detections with
\* aspect < 0.9 outnumber those with aspect > 1.1; with equal counts it is
\* horizontal.
C17_CountsThenHorizontal ==
    (HasDetected /\ BoxesComputable(ocr_data) /\ InPolys # <<>> /\ AreasTied) =>
        (detected = "vertical" <=> Cardinality(Below(9)) > Cardinality(Above(11)))

\* C17 (amended): whatever the areas, the page is vertical when the
\* detections with aspect < 0.6 outnumber those with aspect > 1.4, horizontal
\* when those with aspect > 1.4 outnumber those with aspect < 0.6, and with
\* equal counts it is vertical if and only if the extent of all boxes has a
\* positive height and width / height < 0.8.
C17_CountsThenExtent ==
    (HasDetected /\ BoxesComputable(ocr_data) /\ InPolys # <<>>) =>
        LET v == Cardinality(Below(6))
            h == Cardinality(Above(14))
            e == ExtentOf(InPolys)
        IN  detected = IF v > h THEN "vertical"
                       ELSE IF h > v THEN "horizontal"
                       ELSE IF e[2] > 0 /\ 10 * e[1] < 8 * e[2] THEN "vertical"
                       ELSE "horizontal"

\* equal counts and tied areas on a page that is taller than wide: vertical
C17_Witness ==
    /\ HasDetected /\ ValidPolygons
    /\ Len(InPolys) = 2
    /\ AreasTied
    /\ Cardinality(Below(9)) = Cardinality(Above(11))
    /\ Cardinality(Below(6)) = Cardinality(Above(14))
    /\ detected = "vertical"

-----------------------------------------------------------------------------
\* the polygons a detection added to a page may have
Candidates == {q \in EdgeQuads \cup MalformedPolys : ~BoxRaises([det |-> 0, pts |-> q])}

\* n/10 <= aspect <= m/10
InBand(poly, n, m) == ~AspectBelow(poly, n, 10) /\ ~AspectAbove(poly, m, 10)

\* the input page with one more detection of polygon q, and without detection i
WithPolygon(q) ==
    [rec_polys |-> Append(InPolys, [det |-> Len(InPolys) + 1, pts |-> q])]
WithoutDetection(i) ==
    [rec_polys |-> [k \in 1..(Len(InPolys) - 1) |->
                       IF k < i THEN InPolys[k] ELSE InPolys[k + 1]]]

\* adding a detection with n/10 <= aspect <= m/10 to the input page, or
\* removing one from it when another detection stays, leaves the result of
\* detect_text_orientation as it is
BandIsNeutral(n, m) ==
    /\ \A q \in Candidates :
           InBand([det |-> 0, pts |-> q], n, m)
               => detect_text_orientation(WithPolygon(q)) = detected
    /\ \A i \in DOMAIN InPolys :
           (InBand(InPolys[i], n, m) /\ Len(InPolys) > 1)
               => detect_text_orientation(WithoutDetection(i)) = detected

\* C18 (as stated): adding a detection with 0.9 <= aspect <= 1.1 to a
\* non-empty page, or removing one from a page that stays non-empty, never
\* changes the result of detect_text_orientation.
C18_DeadBand09_11 ==
    (HasDetected /\ BoxesComputable(ocr_data) /\ InPolys # <<>>) => BandIsNeutral(9, 11)

\* C18 (amended): a detection with 0.6 <= aspect <= 1.4 casts no vote: on a
\* page where the detections with aspect < 0.6 and those with aspect > 1.4
\* differ in number, adding such a detection, or removing one while another
\* detection stays, never changes the result of detect_text_orientation.
C18_NoVoteBand06_14 ==
    (HasDetected /\ BoxesComputable(ocr_data) /\ InPolys # <<>>
         /\ Cardinality(Below(6)) # Cardinality(Above(14)))
        => BandIsNeutral(6, 14)

\* a page of three detections, two of them in the band, with more vertical
\* than horizontal lines
C18_Witness ==
    /\ HasDetected /\ BoxesComputable(ocr_data)
    /\ Len(InPolys) = 3
    /\ Cardinality(Below(6)) = 1 /\ Cardinality(Above(14)) = 0
    /\ InBand(InPolys[1], 9, 11)
    /\ InBand(InPolys[2], 11, 14) /\ ~InBand(InPolys[2], 9, 11)
    /\ detected = "vertical"

-----------------------------------------------------------------------------
\* a record with rec_texts and rec_scores cut to the length of rec_polys
Truncated(data) ==
    [data EXCEPT !.rec_texts = SubSeq(@, 1, Len(data.rec_polys)),
                 !.rec_scores = SubSeq(@, 1, Len(data.rec_polys))]

\* C19 (as stated): when rec_polys, rec_texts and rec_scores differ in
\* length, sort_by_orientation raises nothing and returns the original page,
\* each sequence with its original length and order.
C19_UnequalLengthsUnchanged ==
    (Sorted /\ ~EqualLengths(ocr_data)) =>
        /\ result.rec_polys = ocr_data.rec_polys
        /\ result.rec_texts = ocr_data.rec_texts
        /\ result.rec_scores = ocr_data.rec_scores

\* C19 (amended): when rec_texts or rec_scores is shorter than rec_polys (or
\* a polygon has no box), sort_by_orientation raises nothing and returns the
\* original page; when both are at least as long as rec_polys and one is
\* longer, it raises nothing and returns the sorted and filtered page of the
\* first len(rec_polys) texts and scores: the elements beyond are dropped.
C19_ShorterUnchangedLongerCut ==
    (Sorted /\ ~EqualLengths(ocr_data)) =>
        IF Computable(ocr_data)
        THEN /\ result = sort_by_orientation(Truncated(ocr_data))
             /\ TriplesOfInput(result)
             /\ result # ocr_data
        ELSE result = ocr_data

\* two flat boxes with three texts: the page is returned sorted, without the
\* third text
C19_Witness ==
    /\ Sorted /\ Computable(ocr_data)
    /\ Len(InPolys) = 2 /\ Len(ocr_data.rec_texts) = 3 /\ Len(ocr_data.rec_scores) = 2
    /\ Len(OutPolys) = 2
    /\ result.rec_texts = <<Text(2), Text(1)>>

-----------------------------------------------------------------------------
\* a detection whose own direction is opposite to the page orientation: a
\* horizontal line (aspect > 1.4) on a vertical page, a vertical line
\* (aspect < 0.6) on a horizontal page
Opposite(orientation, poly) ==
    IF orientation = "vertical" THEN AspectAbove(poly, 14, 10)
    ELSE AspectBelow(poly, 6, 10)

\* C20: the filter step removes exactly the detections whose own direction is
\* opposite to the page orientation: on a vertical page all horizontal lines
\* (aspect > 1.4) and only those, on a horizontal page all vertical lines
\* (aspect < 0.6) and only those; a detection that voted for the page
\* orientation, or that did not vote, is kept.
C20_RemovesOppositeOnly ==
    Sorted =>
        \A t \in Range(Triples(ocr_data)) :
            Count(Triples(result), t) =
                IF Opposite(detected, t[1]) THEN 0 ELSE Count(Triples(ocr_data), t)

-----------------------------------------------------------------------------
\* C21 (as stated): on a vertical page, with the member of largest right edge
\* xmax as seed of a column, every member of the column has its right edge in
\* [seed_xmax - threshold, seed_xmax], and a detection is never merged into a
\* column whose members all end left of its own right edge.
C21_LeftwardRightEdge ==
    (Sorted /\ detected = "vertical") =>
        LET cols == InColumns
            boxes == BoxesOf(ocr_data)
            thr20 == ColumnThreshold20(boxes)
            maxx == ColumnMaxX
        IN  \A k \in DOMAIN cols :
                /\ \A i \in Range(cols[k].items) :
                       20 * (maxx[k] - boxes[i][3]) <= thr20
                /\ \A p \in 2..Len(cols[k].items) :
                       boxes[cols[k].items[p]][3]
                           <= Max({boxes[cols[k].items[q]][3] : q \in 1..(p - 1)})

\* C21 (amended): column merging on a vertical page is two-directional and
\* goes by x-centres: with the first detection of a column in input order as
\* its seed and threshold = max(10, 0.05 * (max x - min x)), every member of
\* a column has its x-centre in [seed_centre - threshold, seed_centre +
\* threshold], and a detection opens a column of its own if and only if no
\* earlier seed has its x-centre within the threshold of the detection's, on
\* either side.
C21_TwoSidedCentre ==
    (Sorted /\ detected = "vertical") =>
        LET col == ColumnOf
            first == FirstOfColumn
            boxes == BoxesOf(ocr_data)
        IN  \A i \in DOMAIN boxes :
                /\ CentresWithinThreshold(boxes, i, first[col[i]])
                /\ (first[col[i]] = i) <=>
                       (\A k \in DOMAIN first :
                            first[k] < i => ~CentresWithinThreshold(boxes, i, first[k]))

\* a detection has been merged into a column whose seed lies to its left, and
\* its right edge is more than the threshold right of the seed's
C21_Witness ==
    /\ Sorted /\ detected = "vertical"
    /\ LET col == ColumnOf
           first == FirstOfColumn
           c2 == Centre2
           boxes == BoxesOf(ocr_data)
       IN  \E i \in DOMAIN boxes :
               /\ first[col[i]] # i
               /\ c2[i] > c2[first[col[i]]]
               /\ 20 * (boxes[i][3] - boxes[first[col[i]]][3]) > ColumnThreshold20(boxes)
               /\ \E a \in DOMAIN OutPolys : OutPolys[a].det = i

-----------------------------------------------------------------------------
-----------------------------------------------------------------------------
\* C27: OverlayWidget.selected_index is -1 or an index into
\* OverlayWidget.ocr_boxes, so that _check_resize_edge never reads
\* ocr_boxes[selected_index] out of range.
C27_SelectionInRange ==
    selected_index = -1 \/ (0 <= selected_index /\ selected_index < Len(ocr_boxes))

-----------------------------------------------------------------------------
\* the record has an orientation tag
Tagged(r) == "orientation" \in DOMAIN r

\* two records carry the same orientation tag, or none
SameTag(r, q) ==
    /\ Tagged(r) <=> Tagged(q)
    /\ Tagged(r) => r.orientation = q.orientation

\* two records hold the same (polygon, text, score) triples, each as often
SameTriples(r, q) ==
    /\ EqualLengths(r) /\ EqualLengths(q)
    /\ \A t \in Range(Triples(r)) \cup Range(Triples(q)) :
           Count(Triples(r), t) = Count(Triples(q), t)

\* sort_by_orientation applied to the record it has returned
Again == sort_by_orientation(result)

\* C29 (as stated): sort_by_orientation applied to the record returned by a
\* successful call returns the same three sequences in the same order and the
\* same orientation tag.
C29_Idempotent ==
    Sorted => Again = result

\* C29 (amended): when the record returned by a successful call holds at
\* least one detection, a second call on it returns the same orientation tag
\* and the same detections, and on a horizontal page the same order; when it
\* holds no detection the second call returns three empty sequences without
\* a tag.
C29_SecondCallKeepsDetections ==
    Sorted =>
        IF OutPolys = <<>>
        THEN Again = [rec_texts |-> <<>>, rec_scores |-> <<>>, rec_polys |-> <<>>]
        ELSE /\ SameTag(Again, result)
             /\ SameTriples(Again, result)
             /\ result.orientation = "horizontal" => Again = result

\* a horizontal page of three detections that came in another order than
\* they are read, and a second call that leaves the returned record as it is
C29_Witness ==
    /\ Sorted /\ detected = "horizontal"
    /\ Len(OutPolys) = 3
    /\ OutPolys[1].det = 3
    /\ Cardinality({OutPolys[a].pts : a \in DOMAIN OutPolys}) = 3
    /\ Again = result

-----------------------------------------------------------------------------
\* the permutations of 1..n
Perms(n) == {p \in [1..n -> 1..n] : \A a, b \in 1..n : p[a] = p[b] => a = b}

\* the detections of a record in the order p
Permuted(data, p) ==
    [rec_polys  |-> [i \in 1..Len(data.rec_polys) |-> data.rec_polys[p[i]]],
     rec_texts  |-> [i \in 1..Len(data.rec_polys) |-> data.rec_texts[p[i]]],
     rec_scores |-> [i \in 1..Len(data.rec_polys) |-> data.rec_scores[p[i]]]]

\* no two bounding boxes of the input page share the same ymin
DistinctYmin ==
    LET boxes == BoxesOf(ocr_data)
    IN  \A i, j \in DOMAIN boxes : boxes[i][2] = boxes[j][2] => i = j

\* C30 (as stated): for a page in which no two bounding boxes share the same
\* ymin, every permutation of the input detections yields the same output
\* sequence of detections and the same orientation tag.
C30_OrderIndependent ==
    (Sorted /\ DistinctYmin) =>
        \A p \in Perms(Len(InPolys)) :
            sort_by_orientation(Permuted(ocr_data, p)) = result

\* C30 (amended): for a page in which no two bounding boxes share the same
\* ymin, every permutation of the input detections yields the same
\* orientation tag and the same returned detections, and on a horizontal
\* page the same output sequence.
C30_OrderIndependentHorizontal ==
    (Sorted /\ DistinctYmin) =>
        \A p \in Perms(Len(InPolys)) :
            LET r == sort_by_orientation(Permuted(ocr_data, p))
            IN  /\ SameTag(r, result)
                /\ SameTriples(r, result)
                /\ detected = "horizontal" => r = result

\* a horizontal page of three detections with three ymin, emitted in another
\* order than they are read
C30_Witness ==
    /\ Sorted /\ detected = "horizontal" /\ DistinctYmin
    /\ Len(OutPolys) = 3
    /\ OutPolys[1].det = 2 /\ OutPolys[2].det = 3

-----------------------------------------------------------------------------
(* C23: whenever an operation of GlobalState has returned, ocr_cache holds at
   most ocr_cache_max (6) PDF entries *)
C23_CacheBounded == Len(ocr_cache) <= ocr_cache_max

\* a seventh document has been opened and the cache is full
C23_Witness ==
    /\ Len(recency) > ocr_cache_max
    /\ Len(ocr_cache) = ocr_cache_max

-----------------------------------------------------------------------------
(* C24: eviction is least-recently-used: the entries of ocr_cache are the
   documents opened or accessed most recently, oldest first, so the entries
   set_pdf_file removes are those used longest ago; and once a document has
   been opened the current document has an entry *)
C24_LeastRecentlyUsedEvicted ==
    /\ Len(ocr_cache) <= Len(recency)
    /\ Keys(ocr_cache) = SubSeq(recency, Len(recency) - Len(ocr_cache) + 1, Len(recency))
    /\ current_pdf_file # NoPath => HasKey(ocr_cache, current_pdf_basename)

\* 2.pdf has been evicted while 1.pdf, opened before it and reopened after
\* it, is still cached
C24_Witness ==
    /\ Len(recency) = ocr_cache_max + 1
    /\ recency[1] = "2.pdf"
    /\ HasKey(ocr_cache, "1.pdf")
    /\ ~HasKey(ocr_cache, "2.pdf")

-----------------------------------------------------------------------------
(* C25: an OCR result is stored under the page that was rendered for it, also
   when the page is changed before the result is handled: every cached page
   holds the OCR of that page *)
C25_StoredUnderOcrPage ==
    \A i \in DOMAIN ocr_cache : \A p \in Pages :
        ocr_cache[i].data[p] # NoPage => ocr_cache[i].data[p].ocr.page = p

-----------------------------------------------------------------------------
(* C26: the JSON file named after a PDF never receives the cached pages of a
   different PDF, under every interleaving of the save thread with
   set_pdf_file *)
C26_FileHoldsOwnPages ==
    \A b \in Basenames : \A p \in Pages :
        (disk[b].state = "written" /\ disk[b].data[p] # NoPage)
            => basename(disk[b].data[p].saved) = b

-----------------------------------------------------------------------------
(* C28: cached data of two different PDF files is never shared: after
   set_pdf_file(path1), some saves and set_pdf_file(path2), a call of
   get_pdf_page_data returns only data that was saved while path2 was the
   current file *)
C28_NeverShared ==
    [][GetPdfPageData =>
          (returned' # NoPage => returned'.saved = current_pdf_file)]_vars

=============================================================================
